---- MODULE Spec2Model ----
(***************************************************************************)
(* Model of scrape_smogon_price_range.py: the text extractor               *)
(* (extract_price_range_from_html with its two regular expressions) and    *)
(* the pipeline in main() (read CSV, column check, column initialisation,  *)
(* the per-row fetch / extract / store / sleep loop, write CSV).           *)
(*                                                                         *)
(* Text is a sequence of tokens.  A cell of a CSV file, a URL and a label  *)
(* are sequences of one-character tokens; page markup is a sequence whose  *)
(* tokens are characters, the literal phrases the regular expressions look *)
(* for ("Price Range:", "points") and a tag.                               *)
(***************************************************************************)
EXTENDS Integers, Sequences, FiniteSets, TLC

VARIABLES
    fs,         \* the file system: path -> CSV file or NoFile
    args,       \* the parsed command line of the current run
    run,        \* "first" or "again": which run of the program this is
    pc,         \* position of main() (or of the extractor harness)
    exit,       \* exit status of the process: "running", 0, 1, 130
    stderr,     \* what the run reported on the error stream
    df,         \* the DataFrame: [columns, rows]
    items,      \* list(df[args.url_col].items()), the snapshot the loop walks
    k,          \* position of the loop in items (1-based)
    html,       \* the markup being extracted (r.text of the current fetch)
    text,       \* soup.get_text(...) of that markup
    pr,         \* the last value extract_price_range_from_html returned
    inflight,   \* number of HTTP requests sent and not yet answered
    log,        \* the run's observable events, in order
    responses,  \* what the remote side answered for each row in the first run
    firstOut    \* the output file the first run wrote (NoFile before)

vars == <<fs, args, run, pc, exit, stderr, df, items, k, html, text, pr, inflight,
          log, responses, firstOut>>

-----------------------------------------------------------------------------
(* Bounds of the model.                                                    *)

\* largest number of data rows of the input CSV
MaxRows == 2
\* largest number of free tokens of a page given to the extractor
MaxHtmlLen == 4

-----------------------------------------------------------------------------
(* Text.                                                                   *)

Digits == <<"0", "1", "2", "3", "4", "5", "6", "7", "8", "9">>

IsDigit(c) == \E d \in 1..10 : Digits[d] = c

DigitVal(c) == (CHOOSE d \in 1..10 : Digits[d] = c) - 1

IsSpace(c) == c \in {" ", "\n"}

\* str.lower() on a token, for the tokens whose case the model varies
Lower(c) ==
    CASE c = "PRICE RANGE:" -> "price range:"
      [] c = "Price Range:" -> "price range:"
      [] c = "Points" -> "points"
      [] OTHER -> c

RECURSIVE LStrip(_)
LStrip(s) == IF s # <<>> /\ IsSpace(Head(s)) THEN LStrip(Tail(s)) ELSE s

RECURSIVE RStrip(_)
RStrip(s) ==
    IF s # <<>> /\ IsSpace(s[Len(s)]) THEN RStrip(SubSeq(s, 1, Len(s) - 1)) ELSE s

\* str.strip()
Strip(s) == RStrip(LStrip(s))

\* int(text) for a run of decimal digits
RECURSIVE ParseInt(_)
ParseInt(s) ==
    IF s = <<>> THEN 0 ELSE 10 * ParseInt(SubSeq(s, 1, Len(s) - 1)) + DigitVal(s[Len(s)])

\* str(n) / f"{n}" for a non-negative integer
RECURSIVE FormatInt(_)
FormatInt(n) ==
    IF n < 10 THEN <<Digits[n + 1]>> ELSE FormatInt(n \div 10) \o <<Digits[(n % 10) + 1]>>

-----------------------------------------------------------------------------
(* The txt extractor.                                                     *)

IsTag(c) == c = "<b>"

\* the txt nodes of the markup: the maximal tag-free stretches, in order
RECURSIVE TextNodes(_, _)
TextNodes(markup, cur) ==
    IF markup = <<>> THEN <<cur>>
    ELSE IF IsTag(Head(markup)) THEN <<cur>> \o TextNodes(Tail(markup), <<>>)
    ELSE TextNodes(Tail(markup), Append(cur, Head(markup)))

RECURSIVE JoinStripped(_)
JoinStripped(nodes) ==
    IF nodes = <<>> THEN <<>>
    ELSE LET s == Strip(Head(nodes))
             rest == JoinStripped(Tail(nodes))
         IN  IF s = <<>> THEN rest
             ELSE IF rest = <<>> THEN s
             ELSE s \o <<" ">> \o rest

\* BeautifulSoup(html, "lxml").get_text(separator=" ", strip=True)
GetText(markup) == JoinStripped(TextNodes(markup, <<>>))

NoMatch == [found |-> FALSE, start |-> 0, low |-> <<>>, high |-> <<>>, val |-> <<>>]

\* \s* from position p: the first position at or after p that holds no space
RECURSIVE SkipSpaces(_, _)
SkipSpaces(txt, p) ==
    IF p <= Len(txt) /\ IsSpace(txt[p]) THEN SkipSpaces(txt, p + 1) ELSE p

\* \d+ from position p (greedy): the first position at or after p that holds no digit
RECURSIVE SkipDigits(_, _)
SkipDigits(txt, p) ==
    IF p <= Len(txt) /\ IsDigit(txt[p]) THEN SkipDigits(txt, p + 1) ELSE p

IsLiteral(txt, p, word) == p <= Len(txt) /\ Lower(txt[p]) = word

\* PRICE_RANGE_RE anchored at position p
RangeMatchAt(txt, p) ==
    LET d1 == SkipSpaces(txt, p + 1)
        e1 == SkipDigits(txt, d1)
        h  == SkipSpaces(txt, e1)
        d2 == SkipSpaces(txt, h + 1)
        e2 == SkipDigits(txt, d2)
        w  == SkipSpaces(txt, e2)
    IN  IF /\ IsLiteral(txt, p, "price range:")
           /\ e1 > d1
           /\ IsLiteral(txt, h, "-")
           /\ e2 > d2
           /\ IsLiteral(txt, w, "points")
        THEN [found |-> TRUE, start |-> p, val |-> <<>>,
              low |-> SubSeq(txt, d1, e1 - 1), high |-> SubSeq(txt, d2, e2 - 1)]
        ELSE NoMatch

\* PRICE_SINGLE_RE anchored at position p
SingleMatchAt(txt, p) ==
    LET d1 == SkipSpaces(txt, p + 1)
        e1 == SkipDigits(txt, d1)
        w  == SkipSpaces(txt, e1)
    IN  IF /\ IsLiteral(txt, p, "price range:")
           /\ e1 > d1
           /\ IsLiteral(txt, w, "points")
        THEN [found |-> TRUE, start |-> p, val |-> SubSeq(txt, d1, e1 - 1),
              low |-> <<>>, high |-> <<>>]
        ELSE NoMatch

\* PRICE_RANGE_RE.search(txt): the leftmost match
RECURSIVE RangeSearchFrom(_, _)
RangeSearchFrom(txt, p) ==
    IF p > Len(txt) THEN NoMatch
    ELSE IF RangeMatchAt(txt, p).found THEN RangeMatchAt(txt, p)
    ELSE RangeSearchFrom(txt, p + 1)

PRICE_RANGE_RE(txt) == RangeSearchFrom(txt, 1)

\* PRICE_SINGLE_RE.search(txt): the leftmost match
RECURSIVE SingleSearchFrom(_, _)
SingleSearchFrom(txt, p) ==
    IF p > Len(txt) THEN NoMatch
    ELSE IF SingleMatchAt(txt, p).found THEN SingleMatchAt(txt, p)
    ELSE SingleSearchFrom(txt, p + 1)

PRICE_SINGLE_RE(txt) == SingleSearchFrom(txt, 1)

None == [some |-> FALSE, low |-> 0, high |-> 0]

Pair(low, high) == [some |-> TRUE, low |-> low, high |-> high]

\* mutant: the single-value pattern is tried before the range pattern
search_single_first(txt) ==
    LET m == PRICE_RANGE_RE(txt)
        m2 == PRICE_SINGLE_RE(txt)
        v == ParseInt(m2.val)
    IN  IF m2.found THEN Pair(v, v)
        ELSE IF m.found THEN Pair(ParseInt(m.low), ParseInt(m.high))
        ELSE None

\* mutant: the two groups of the range pattern are taken in the wrong order
search_groups_swapped(txt) ==
    LET m == PRICE_RANGE_RE(txt)
        m2 == PRICE_SINGLE_RE(txt)
        v == ParseInt(m2.val)
    IN  IF m.found THEN Pair(ParseInt(m.high), ParseInt(m.low))
        ELSE IF m2.found THEN Pair(v, v)
        ELSE None

\* lines 48-57: the two searches on the flattened text
search_price_range(txt) ==
    LET m == PRICE_RANGE_RE(txt)
        m2 == PRICE_SINGLE_RE(txt)
        v == ParseInt(m2.val)
    IN  IF m.found THEN Pair(ParseInt(m.low), ParseInt(m.high))
        ELSE IF m2.found THEN Pair(v, v)
        ELSE None

\* lines 39-57
extract_price_range_from_html(markup) == search_price_range(GetText(markup))

-----------------------------------------------------------------------------
(* Values of a DataFrame cell, and the CSV reader and writer.              *)

NA == [t |-> "na", s |-> <<>>, n |-> 0]

StrValue(s) == [t |-> "str", s |-> s, n |-> 0]

IntValue(n) == [t |-> "int", s |-> <<>>, n |-> n]

FloatValue(n) == [t |-> "float", s |-> <<>>, n |-> n]

\* pd.isna(v)
IsNa(v) == v.t = "na"

\* str(v)
PyStr(v) ==
    CASE v.t = "str" -> v.s
      [] v.t = "int" -> FormatInt(v.n)
      [] v.t = "float" -> FormatInt(v.n) \o <<".", "0">>
      [] OTHER -> <<"n", "a", "n">>

\* the cell texts read_csv takes for a missing value (among those the model uses)
IsNaText(c) == c \in {<<>>, <<"N", "/", "A">>, <<"N", "A">>}

IsIntText(c) == c # <<>> /\ \A i \in 1..Len(c) : IsDigit(c[i])

IsFloatText(c) ==
    /\ Len(c) >= 3
    /\ IsIntText(SubSeq(c, 1, Len(c) - 2))
    /\ SubSeq(c, Len(c) - 1, Len(c)) = <<".", "0">>

\* the dtype read_csv infers for a column from its cells
InferDtype(cells) ==
    IF cells # <<>> /\ \A i \in 1..Len(cells) :
           IsNaText(cells[i]) \/ IsIntText(cells[i]) \/ IsFloatText(cells[i])
    THEN IF \A i \in 1..Len(cells) : IsIntText(cells[i]) THEN "int64" ELSE "float64"
    ELSE "object"

ParseCell(c, dtype) ==
    IF IsNaText(c) THEN NA
    ELSE IF dtype = "int64" THEN IntValue(ParseInt(c))
    ELSE IF dtype = "float64"
         THEN FloatValue(ParseInt(IF IsFloatText(c) THEN SubSeq(c, 1, Len(c) - 2) ELSE c))
    ELSE StrValue(c)

NoFile == [exists |-> FALSE, header |-> <<>>, rows |-> <<>>]

CsvFile(header, rows) == [exists |-> TRUE, header |-> header, rows |-> rows]

ColumnCells(file, j) == [i \in 1..Len(file.rows) |-> file.rows[i][j]]

\* pd.read_csv(path): the header gives the columns, each column gets a dtype
read_csv(file) ==
    [columns |-> file.header,
     rows |-> [i \in 1..Len(file.rows) |->
                  [c \in {file.header[j] : j \in 1..Len(file.header)} |->
                      LET j == CHOOSE j \in 1..Len(file.header) : file.header[j] = c
                      IN  ParseCell(file.rows[i][j], InferDtype(ColumnCells(file, j)))]]]

\* the text to_csv writes for a value
FormatCell(v) == IF IsNa(v) THEN <<>> ELSE PyStr(v)

\* df.to_csv(path, index=False)
to_csv(d) ==
    CsvFile(d.columns,
            [i \in 1..Len(d.rows) |->
                [j \in 1..Len(d.columns) |-> FormatCell(d.rows[i][d.columns[j]])]])

ColumnSet(d) == {d.columns[j] : j \in 1..Len(d.columns)}

\* df[col] = v: every row gets v; a new column goes to the end
SetColumn(d, col, v) ==
    [columns |-> IF col \in ColumnSet(d) THEN d.columns ELSE Append(d.columns, col),
     rows |-> [i \in 1..Len(d.rows) |->
                  [c \in ColumnSet(d) \cup {col} |-> IF c = col THEN v ELSE d.rows[i][c]]]]

\* df.at[i, col] = v, i a label of the RangeIndex (0-based)
SetAt(d, i, col, v) == [d EXCEPT !.rows[i + 1][col] = v]

\* mutant: the rows are walked from the last to the first
Items_Reversed(d, col) ==
    [i \in 1..Len(d.rows) |->
        [i |-> Len(d.rows) - i, url |-> d.rows[Len(d.rows) - i + 1][col]]]

\* list(df[col].items()): (index label, value) pairs in row order
Items(d, col) == [i \in 1..Len(d.rows) |-> [i |-> i - 1, url |-> d.rows[i][col]]]

-----------------------------------------------------------------------------
(* main(): the pieces of the pipeline.                                     *)

low_high_col == "smogon_price_low_high"

low_col == "smogon_price_low"

high_col == "smogon_price_high"

NA_LABEL == <<"N", "/", "A">>

\* line 84: args.url_col not in df.columns
UrlColumnMissing(d, col) == col \notin ColumnSet(d)

\* mutant: the message is reported but the process ends with status 0
SystemExit_StatusZero(message) == [status |-> 0, stderr |-> message]

\* raise SystemExit(message): the message goes to stderr, the status is 1
SystemExit(message) == [status |-> 1, stderr |-> message]

\* the message of lines 85-87
NotFoundMessage(d, col) == [text |-> "URL column not found", col |-> col, available |-> d.columns]

\* mutant: a column the input already has is kept as it is
InitColumns_KeepExisting(d) ==
    LET a == IF low_high_col \in ColumnSet(d) THEN d ELSE SetColumn(d, low_high_col, StrValue(NA_LABEL))
        b == IF low_col \in ColumnSet(a) THEN a ELSE SetColumn(a, low_col, NA)
    IN  IF high_col \in ColumnSet(b) THEN b ELSE SetColumn(b, high_col, NA)

\* lines 94-96: the three output columns, set on every row
InitColumns(d) ==
    SetColumn(SetColumn(SetColumn(d, low_high_col, StrValue(NA_LABEL)), low_col, NA), high_col, NA)

\* mutant: the value is not stripped before the test
IsBlank_NoStrip(url) == IsNa(url) \/ PyStr(url) = <<>>

\* line 99: pd.isna(url) or not str(url).strip()
IsBlank(url) == IsNa(url) \/ Strip(PyStr(url)) = <<>>

\* line 102
RequestUrl(url) == Strip(PyStr(url))

\* what requests.get / raise_for_status can end with
FetchErrors == {"ConnectionError", "Timeout", "HTTPError"}

\* mutant: the handler names the connection and status errors only
ExceptCatches_NotTimeout(error) == error \in {"ConnectionError", "HTTPError"}

\* line 116: except Exception catches every error the fetch raises
ExceptCatches(error) == error \in FetchErrors

\* f"{low}-{high}"
FormatLabel(low, high) == FormatInt(low) \o <<"-">> \o FormatInt(high)

\* mutant: the label is built from the low bound twice
StoreRange_LabelLowLow(d, i, p) ==
    SetAt(SetAt(SetAt(d, i, low_high_col, StrValue(FormatLabel(p.low, p.low))),
                i, low_col, IntValue(p.low)),
          i, high_col, IntValue(p.high))

\* lines 111-114
StoreRange(d, i, p) ==
    SetAt(SetAt(SetAt(d, i, low_high_col, StrValue(FormatLabel(p.low, p.high))),
                i, low_col, IntValue(p.low)),
          i, high_col, IntValue(p.high))

\* mutant: the delay is passed on unclamped
SleepSeconds_Unclamped(delay) == delay

\* line 120: max(0.0, args.delay)
SleepSeconds(delay) == IF delay > 0 THEN delay ELSE 0

\* mutant: the loop stops one item early
LoopFinished_OneEarly(pos, list) == pos >= Len(list)

\* line 98: the for loop has walked the whole list
LoopFinished(pos, list) == pos > Len(list)

\* the loop goes on to the next item
NextItem(pos) == pos + 1

Event(e, row, url, secs) == [e |-> e, row |-> row, url |-> url, secs |-> secs]

-----------------------------------------------------------------------------
(* The inputs of a run.                                                    *)

INPUT_PATH == "in.csv"

OUTPUT_PATH == "out.csv"

\* --url-col: the default, and a name no input has
UrlColArgs == {"smogon_draft_url", "link"}

\* --delay, in tenths of a second
Delays == {-1, 3}

\* the cells of the URL column: empty, blank, a URL with spaces around it, a URL
UrlCells == {<<>>, <<" ", " ">>, <<" ", "a", " ">>, <<"b">>}

\* a fresh input, and one that already has the three columns from a prior run
FreshHeader == <<"name", "smogon_draft_url">>

PriorHeader ==
    <<"smogon_price_low_high", "smogon_draft_url", "smogon_price_low", "smogon_price_high">>

FreshRow(cell) == <<<<"x">>, cell>>

PriorRow(cell) == <<<<"8", "-", "9">>, cell, <<"8">>, <<"9">>>>

InputFiles ==
    UNION {
        {CsvFile(FreshHeader, [i \in 1..n |-> FreshRow(cells[i])]) : cells \in [1..n -> UrlCells]}
        \cup
        {CsvFile(PriorHeader, [i \in 1..n |-> PriorRow(cells[i])]) : cells \in [1..n -> UrlCells]}
        : n \in 0..MaxRows}

\* pages the remote side may serve
PageRange == <<"<b>", "Price Range:", "<b>", " ", "8", "-", "9", " ", "points", "<b>">>

PageNone == <<"<b>", "Price", " ", "points">>

Pages == {PageRange, PageNone}

Response(ok, error, page) == [ok |-> ok, error |-> error, page |-> page]

\* r.text of a successful request, or the exception requests raises
Responses ==
    {Response(TRUE, "none", page) : page \in Pages}
        \cup {Response(FALSE, error, <<>>) : error \in FetchErrors}

NotRequested == Response(FALSE, "not requested", <<>>)

EmptyFrame == [columns |-> <<>>, rows |-> <<>>]

-----------------------------------------------------------------------------
(* main(): the state machine.                                              *)

Init ==
    /\ \E file \in InputFiles :
           fs = [p \in {INPUT_PATH, OUTPUT_PATH} |-> IF p = INPUT_PATH THEN file ELSE NoFile]
    /\ \E col \in UrlColArgs, delay \in Delays :
           args = [input |-> INPUT_PATH, output |-> OUTPUT_PATH, url_col |-> col, delay |-> delay]
    /\ run = "first"
    /\ pc = "start"
    /\ exit = -1
    /\ stderr = <<>>
    /\ df = EmptyFrame
    /\ items = <<>>
    /\ k = 1
    /\ html = <<>>
    /\ text = <<>>
    /\ pr = None
    /\ inflight = 0
    /\ log = <<>>
    /\ responses = <<>>
    /\ firstOut = NoFile

\* line 82
ReadInput ==
    /\ pc = "start"
    /\ df' = read_csv(fs[args.input])
    /\ pc' = "check"
    /\ UNCHANGED <<fs, args, run, exit, stderr, items, k, html, text, pr, inflight, log,
                   responses, firstOut>>

\* lines 84-87
AbortMissingColumn ==
    /\ pc = "check"
    /\ UrlColumnMissing(df, args.url_col)
    /\ LET raised == SystemExit(NotFoundMessage(df, args.url_col))
       IN  /\ exit' = raised.status
           /\ stderr' = <<raised.stderr>>
    /\ pc' = "exited"
    /\ UNCHANGED <<fs, args, run, df, items, k, html, text, pr, inflight, log, responses, firstOut>>

\* lines 89-98: the columns are initialised, then the loop takes its list of items
InitializeColumns ==
    /\ pc = "check"
    /\ ~UrlColumnMissing(df, args.url_col)
    /\ df' = InitColumns(df)
    /\ items' = Items(df', args.url_col)
    /\ k' = 1
    /\ pc' = "row"
    /\ UNCHANGED <<fs, args, run, exit, stderr, html, text, pr, inflight, log, responses, firstOut>>

Record(response) == IF run = "first" THEN Append(responses, response) ELSE responses

\* lines 99-100: continue
SkipBlankRow ==
    /\ pc = "row"
    /\ ~LoopFinished(k, items)
    /\ IsBlank(items[k].url)
    /\ k' = NextItem(k)
    /\ log' = Append(log, Event("skip", items[k].i, <<>>, 0))
    /\ responses' = Record(NotRequested)
    /\ UNCHANGED <<fs, args, run, pc, exit, stderr, df, items, html, text, pr, inflight, firstOut>>

\* lines 102-105 and 68: the request for this row goes out
SendRequest ==
    /\ pc = "row"
    /\ ~LoopFinished(k, items)
    /\ ~IsBlank(items[k].url)
    /\ inflight' = inflight + 1
    /\ log' = Append(log, Event("fetch", items[k].i, RequestUrl(items[k].url), 0))
    /\ pc' = "await"
    /\ UNCHANGED <<fs, args, run, exit, stderr, df, items, k, html, text, pr, responses, firstOut>>

\* what the remote side answers: anything in the first run, the same again afterwards
Answers ==
    IF run = "again" /\ k <= Len(responses) /\ responses[k] \in Responses
    THEN {responses[k]}
    ELSE Responses

\* lines 68-70, 105 and 116-118: the request ends, with the page or with an exception
ReceiveResponse ==
    /\ pc = "await"
    /\ \E response \in Answers :
        /\ inflight' = inflight - 1
        /\ responses' = Record(response)
        /\ log' = Append(log, Event(IF response.ok THEN "page" ELSE response.error,
                                    items[k].i, <<>>, 0))
        /\ IF response.ok
           THEN /\ html' = response.page
                /\ pc' = "extract"
                /\ UNCHANGED <<exit, stderr>>
           ELSE IF ExceptCatches(response.error)
           THEN /\ pc' = "sleep"
                /\ UNCHANGED <<html, exit, stderr>>
           ELSE /\ pc' = "exited"
                /\ exit' = 1
                /\ stderr' = <<[text |-> "Traceback", col |-> response.error, available |-> <<>>]>>
                /\ UNCHANGED html
    /\ UNCHANGED <<fs, args, run, df, items, k, text, pr, firstOut>>

\* lines 106 and 43-46: the markup is parsed and flattened
ParseHtml ==
    /\ pc = "extract"
    /\ text' = GetText(html)
    /\ pc' = "search"
    /\ UNCHANGED <<fs, args, run, exit, stderr, df, items, k, html, pr, inflight, log,
                   responses, firstOut>>

\* lines 48-57 and 107-114: the patterns are searched and a pair is stored
SearchAndStore ==
    /\ pc = "search"
    /\ LET found == search_price_range(text)
       IN  /\ pr' = found
           /\ df' = IF found.some THEN StoreRange(df, items[k].i, found) ELSE df
           /\ log' = Append(log, Event(IF found.some THEN "store" ELSE "miss",
                                       items[k].i, <<>>, 0))
    /\ pc' = "sleep"
    /\ UNCHANGED <<fs, args, run, exit, stderr, items, k, html, text, inflight, responses, firstOut>>

\* line 120, and on to the next item
Sleep ==
    /\ pc = "sleep"
    /\ log' = Append(log, Event("sleep", items[k].i, <<>>, SleepSeconds(args.delay)))
    /\ k' = NextItem(k)
    /\ pc' = "row"
    /\ UNCHANGED <<fs, args, run, exit, stderr, df, items, html, text, pr, inflight, responses,
                   firstOut>>

\* line 122
WriteOutput ==
    /\ pc = "row"
    /\ LoopFinished(k, items)
    /\ fs' = [fs EXCEPT ![args.output] = to_csv(df)]
    /\ log' = Append(log, Event("write", Len(df.rows), <<>>, 0))
    /\ pc' = "print"
    /\ UNCHANGED <<args, run, exit, stderr, df, items, k, html, text, pr, inflight, responses,
                   firstOut>>

\* line 123, and main() returns
PrintWrote ==
    /\ pc = "print"
    /\ exit' = 0
    /\ pc' = "exited"
    /\ UNCHANGED <<fs, args, run, stderr, df, items, k, html, text, pr, inflight, log, responses,
                   firstOut>>

\* the program is run a second time, on the same input or on its own output,
\* against a remote side that answers as before
RunAgain ==
    /\ pc = "exited"
    /\ exit = 0
    /\ run = "first"
    /\ \E path \in {INPUT_PATH, OUTPUT_PATH} : args' = [args EXCEPT !.input = path]
    /\ firstOut' = fs[args.output]
    /\ run' = "again"
    /\ pc' = "start"
    /\ exit' = -1
    /\ stderr' = <<>>
    /\ df' = EmptyFrame
    /\ items' = <<>>
    /\ k' = 1
    /\ html' = <<>>
    /\ text' = <<>>
    /\ pr' = None
    /\ log' = <<>>
    /\ UNCHANGED <<fs, inflight, responses>>

\* KeyboardInterrupt while the loop runs: not an Exception, so line 116 lets it through
Interrupt ==
    /\ pc \in {"await", "extract", "search", "sleep"} \/ (pc = "row" /\ ~LoopFinished(k, items))
    /\ pc' = "exited"
    /\ exit' = 130
    /\ inflight' = 0
    /\ stderr' = <<[text |-> "Traceback", col |-> "KeyboardInterrupt", available |-> <<>>]>>
    /\ UNCHANGED <<fs, args, run, df, items, k, html, text, pr, log, responses, firstOut>>

Next ==
    \/ ReadInput
    \/ AbortMissingColumn
    \/ InitializeColumns
    \/ SkipBlankRow
    \/ SendRequest
    \/ ReceiveResponse
    \/ ParseHtml
    \/ SearchAndStore
    \/ Sleep
    \/ WriteOutput
    \/ PrintWrote
    \/ RunAgain

Spec == Init /\ [][Next]_vars

NextInterruptible == Next \/ Interrupt

SpecInterruptible == Init /\ [][NextInterruptible]_vars

-----------------------------------------------------------------------------
(* The extractor on its own: every page made of a lead and up to           *)
(* MaxHtmlLen free tokens.                                                 *)

HtmlTokens == {"Price Range:", "points", "8", "9", "-", " ", "<b>"}

\* nothing; a single-value phrase and the start of a second phrase; a phrase cut
\* off after its first integer
Leads ==
    { <<>>,
      <<"PRICE RANGE:", "\n", "7", "<b>", "Points", "<b>", "Price Range:">>,
      <<"price range:", " ", "9">> }

HtmlInputs ==
    {lead \o body : lead \in Leads, body \in UNION {[1..n -> HtmlTokens] : n \in 0..MaxHtmlLen}}

InitExtract ==
    /\ html \in HtmlInputs
    /\ pc = "call"
    /\ text = <<>>
    /\ pr = None
    /\ fs = [p \in {INPUT_PATH, OUTPUT_PATH} |-> NoFile]
    /\ args = [input |-> INPUT_PATH, output |-> OUTPUT_PATH,
               url_col |-> "smogon_draft_url", delay |-> 0]
    /\ run = "first"
    /\ exit = -1
    /\ stderr = <<>>
    /\ df = EmptyFrame
    /\ items = <<>>
    /\ k = 1
    /\ inflight = 0
    /\ log = <<>>
    /\ responses = <<>>
    /\ firstOut = NoFile

\* lines 39-57: one call of extract_price_range_from_html
CallExtract ==
    /\ pc = "call"
    /\ text' = GetText(html)
    /\ pr' = extract_price_range_from_html(html)
    /\ pc' = "returned"
    /\ UNCHANGED <<fs, args, run, exit, stderr, df, items, k, html, inflight, log, responses,
                   firstOut>>

SpecExtract == InitExtract /\ [][CallExtract]_vars

-----------------------------------------------------------------------------
(* What the two patterns mean, stated on positions of the text rather than *)
(* as a scan: the phrase at p, then spaces, digits a..b, spaces, and so on.*)

AllSpaces(txt, from, to) == \A i \in from..to : IsSpace(txt[i])

AllDigits(txt, from, to) == \A i \in from..to : IsDigit(txt[i])

IsPhrase(txt, p) == Lower(txt[p]) = "price range:"

\* a hyphen between b and c with nothing but spaces around it
HyphenBetween(txt, b, c) ==
    \E h \in (b + 1)..(c - 1) :
        txt[h] = "-" /\ AllSpaces(txt, b + 1, h - 1) /\ AllSpaces(txt, h + 1, c - 1)

\* the word "points" after d with nothing but spaces before it
PointsAfter(txt, d) ==
    \E w \in (d + 1)..Len(txt) : Lower(txt[w]) = "points" /\ AllSpaces(txt, d + 1, w - 1)

\* the (low, high) digit groups a..b, c..d of the range form starting at p
RangeGroups(txt, p) ==
    LET n == Len(txt)
    IN  IF ~IsPhrase(txt, p) THEN {}
        ELSE UNION {UNION {UNION {
                 {<<a, b, c, d>> :
                     d \in {d \in c..n : AllDigits(txt, c, d) /\ PointsAfter(txt, d)}}
                 : c \in {c \in (b + 2)..n : HyphenBetween(txt, b, c)}}
                 : b \in {b \in a..n : AllDigits(txt, a, b)}}
                 : a \in {a \in (p + 1)..n : AllSpaces(txt, p + 1, a - 1)}}

\* the digit group a..b of the single-value form starting at p
SingleGroups(txt, p) ==
    LET n == Len(txt)
    IN  IF ~IsPhrase(txt, p) THEN {}
        ELSE UNION {
                 {<<a, b>> : b \in {b \in a..n : AllDigits(txt, a, b) /\ PointsAfter(txt, b)}}
                 : a \in {a \in (p + 1)..n : AllSpaces(txt, p + 1, a - 1)}}

RangeStarts(txt) == {p \in 1..Len(txt) : RangeGroups(txt, p) # {}}

SingleStarts(txt) == {p \in 1..Len(txt) : SingleGroups(txt, p) # {}}

First(S) == CHOOSE p \in S : \A q \in S : p <= q

\* the value of the digits from..to of the text
Number(txt, from, to) == ParseInt(SubSeq(txt, from, to))

FlatText == text

\* the pair the patterns determine for a text: the integers of the first
\* range form if there is one, else the integer of the first single-value form
\* twice, else nothing
FirstRange(txt) ==
    LET g == CHOOSE g \in RangeGroups(txt, First(RangeStarts(txt))) : TRUE
    IN  [low |-> Number(txt, g[1], g[2]), high |-> Number(txt, g[3], g[4])]

FirstSingle(txt) ==
    LET g == CHOOSE g \in SingleGroups(txt, First(SingleStarts(txt))) : TRUE
    IN  Number(txt, g[1], g[2])

\* C7: the range form has precedence wherever it stands: with a range-form
\* match in the flattened text the result is the two integers of the first one;
\* with none but a single-value match it is (v, v) of the first one; with neither
\* it is absent.
C7_RangeFormPrecedence ==
    pc = "returned" =>
        LET txt == FlatText
        IN  IF RangeStarts(txt) # {}
            THEN /\ Cardinality(RangeGroups(txt, First(RangeStarts(txt)))) = 1
                 /\ pr = Pair(FirstRange(txt).low, FirstRange(txt).high)
            ELSE IF SingleStarts(txt) # {}
            THEN /\ Cardinality(SingleGroups(txt, First(SingleStarts(txt)))) = 1
                 /\ pr = Pair(FirstSingle(txt), FirstSingle(txt))
            ELSE pr = None

\* C7 witness: a single-value match stands before the first range-form match,
\* and the range was returned
C7_Witness ==
    /\ pc = "returned"
    /\ RangeStarts(FlatText) # {}
    /\ SingleStarts(FlatText) # {}
    /\ First(SingleStarts(FlatText)) < First(RangeStarts(FlatText))
    /\ pr.some
    /\ pr.low # pr.high

\* C6 as claimed: every returned pair has low <= high
C6_LowAtMostHigh == (pc = "returned" /\ pr.some) => pr.low <= pr.high

\* C6 as amended: a pair from the single-value form has low = high, and a pair
\* from the range form has low <= high exactly when the first integer of the
\* matched text is at most the second: the integers are returned as they stand.
C6_OrderAsWritten ==
    (pc = "returned" /\ pr.some) =>
        LET txt == FlatText
        IN  IF RangeStarts(txt) # {}
            THEN (pr.low <= pr.high) <=> (FirstRange(txt).low <= FirstRange(txt).high)
            ELSE pr.low = pr.high

\* C6 witness: a range form whose first integer is the larger was extracted
C6_Witness ==
    /\ pc = "returned"
    /\ pr.some
    /\ pr.low > pr.high
    /\ RangeStarts(FlatText) # {}

-----------------------------------------------------------------------------
(* The pipeline's claims, stated on the files and on the log of events.    *)

InputFile == fs[args.input]

OutputFile == fs[args.output]

HeaderSet(file) == {file.header[j] : j \in 1..Len(file.header)}

\* the text of column col in data row i of a file
Cell(file, i, col) == file.rows[i][CHOOSE j \in 1..Len(file.header) : file.header[j] = col]

ColumnConfigured == args.url_col \in HeaderSet(InputFile)

RowCount == Len(InputFile.rows)

\* the URL cell of row i is missing, empty or nothing but spaces
BlankUrl(i) ==
    LET c == Cell(InputFile, i, args.url_col)
    IN  IsNaText(c) \/ AllSpaces(c, 1, Len(c))

\* u is the cell without the spaces around it
IsTrimOf(u, c) ==
    /\ u # <<>>
    /\ ~IsSpace(u[1])
    /\ ~IsSpace(u[Len(u)])
    /\ \E a \in 1..Len(c) :
           /\ u = SubSeq(c, a, a + Len(u) - 1)
           /\ AllSpaces(c, 1, a - 1)
           /\ AllSpaces(c, a + Len(u), Len(c))

\* positions of the log that hold event e for the row with index label r
At(e, r) == {j \in 1..Len(log) : log[j].e = e /\ log[j].row = r}

Fetches == {j \in 1..Len(log) : log[j].e = "fetch"}

Sleeps == {j \in 1..Len(log) : log[j].e = "sleep"}

Writes == {j \in 1..Len(log) : log[j].e = "write"}

\* the run has written its output
Written == Writes # {}

Finished == pc = "exited" /\ exit = 0

\* the three output cells of row i of a file
Fields(file, i) ==
    <<Cell(file, i, low_high_col), Cell(file, i, low_col), Cell(file, i, high_col)>>

DefaultFields == <<<<"N", "/", "A">>, <<>>, <<>>>>

\* c is the decimal numeral of n, without leading zeros
IsNumeral(c, n) == IsIntText(c) /\ (Len(c) = 1 \/ c[1] # "0") /\ ParseInt(c) = n

\* what the remote side answered for row i, and what the extractor makes of it
Answer(i) == responses[i]

Extracted(i) == extract_price_range_from_html(Answer(i).page)

\* row i had a URL, its fetch succeeded and the extractor returned a pair
Enriched(i) == ~BlankUrl(i) /\ Answer(i).ok /\ Extracted(i).some

\* C1: a failing row never interrupts the loop.  Once the loop is past a row
\* whose fetch failed or whose page had no match, the row has taken its delay
\* and holds the defaults, in the table and later in the written file; a run
\* ends with a non-zero status only through the column check; and a run that
\* ends with status 0 has handled every row and written the output.
C1_RowDefaults ==
    \A i \in 1..Len(items) :
        (i < k /\ ~BlankUrl(i) /\ i <= Len(responses)
           /\ (~Answer(i).ok \/ ~Extracted(i).some)) =>
            /\ At("sleep", i - 1) # {}
            /\ df.rows[i][low_high_col] = StrValue(<<"N", "/", "A">>)
            /\ df.rows[i][low_col] = NA
            /\ df.rows[i][high_col] = NA
            /\ Written => Fields(OutputFile, i) = DefaultFields

C1_OnlyColumnCheckFails == (pc = "exited" /\ exit # 0) => ~ColumnConfigured

C1_ZeroExitAfterAllRows ==
    Finished =>
        /\ Written
        /\ Len(OutputFile.rows) = RowCount
        /\ \A i \in 1..RowCount : At("skip", i - 1) # {} \/ At("sleep", i - 1) # {}

C1_FailuresNeverInterrupt ==
    /\ C1_RowDefaults
    /\ C1_OnlyColumnCheckFails
    /\ C1_ZeroExitAfterAllRows

\* C1 witness: a run ended with status 0 in which a row timed out and a later
\* row was fetched and stored
C1_Witness ==
    /\ Finished
    /\ \E i \in 1..RowCount, j \in 1..RowCount :
           /\ i < j
           /\ At("Timeout", i - 1) # {}
           /\ At("store", j - 1) # {}
           /\ Fields(OutputFile, i) = DefaultFields

\* C2: with the URL column missing the run never enters the loop: no fetch, no
\* delay, no write, no output file, and it ends with a non-zero status.
C2_MissingColumnAborts ==
    ~ColumnConfigured =>
        /\ pc \in {"start", "check", "exited"}
        /\ Fetches = {} /\ Sleeps = {} /\ Writes = {}
        /\ inflight = 0
        /\ ~OutputFile.exists
        /\ pc = "exited" => exit # 0

\* C2 witness: an input with rows was refused for its missing column
C2_Witness ==
    /\ ~ColumnConfigured
    /\ pc = "exited"
    /\ exit = 1
    /\ RowCount > 0
    /\ stderr # <<>>

\* C3: a row with a blank URL is never fetched, takes no delay, and is written
\* with the defaults.
C3_BlankRowsUntouched ==
    ColumnConfigured =>
        \A i \in 1..RowCount :
            BlankUrl(i) =>
                /\ At("fetch", i - 1) = {}
                /\ At("sleep", i - 1) = {}
                /\ Written => Fields(OutputFile, i) = DefaultFields

\* C3 witness: the output was written for an input with a row of spaces only
\* next to a row that was fetched
C3_Witness ==
    /\ Written
    /\ \E i \in 1..RowCount, j \in 1..RowCount :
           /\ Cell(InputFile, i, args.url_col) = <<" ", " ">>
           /\ At("skip", i - 1) # {}
           /\ At("fetch", j - 1) # {}

\* C4: every written row has one of two shapes: the defaults, or the numerals of
\* the pair extracted from the page fetched from the row's own trimmed URL with
\* the label "low-high" made of these two numerals; the second shape exactly
\* for the rows that had a URL, a successful fetch and a match.
C4_RowShapes ==
    Written =>
        /\ Len(OutputFile.rows) = RowCount
        /\ \A i \in 1..RowCount :
               LET lab == Fields(OutputFile, i)[1]
                   lo == Fields(OutputFile, i)[2]
                   hi == Fields(OutputFile, i)[3]
               IN  IF Enriched(i)
                   THEN /\ IsNumeral(lo, Extracted(i).low)
                        /\ IsNumeral(hi, Extracted(i).high)
                        /\ lab = lo \o <<"-">> \o hi
                        /\ \A j \in At("fetch", i - 1) :
                               IsTrimOf(log[j].url, Cell(InputFile, i, args.url_col))
                   ELSE Fields(OutputFile, i) = DefaultFields

\* C4 witness: a written file with a row of each shape
C4_Witness ==
    /\ Written
    /\ \E i \in 1..RowCount, j \in 1..RowCount :
           /\ Enriched(i)
           /\ Fields(OutputFile, i) = <<<<"8", "-", "9">>, <<"8">>, <<"9">>>>
           /\ Cell(InputFile, i, args.url_col) = <<" ", "a", " ">>
           /\ ~Enriched(j)
           /\ ~BlankUrl(j)

\* the input already had the three columns, filled by a prior run
HadPriorValues == fs[INPUT_PATH].header = PriorHeader

\* C5: the written fields do not depend on what the three columns held in the
\* input: a row that came with "8-9" and now fails or has no URL is written with
\* the defaults, and a second run, on the same input or on the first run's
\* output, against the same answers writes the file the first run wrote.
C5_OldValuesOverwritten ==
    Written =>
        /\ \A i \in 1..RowCount :
               (args.input = INPUT_PATH /\ HadPriorValues /\ ~Enriched(i)) =>
                   Fields(OutputFile, i) = DefaultFields
        /\ run = "again" => OutputFile = firstOut

\* C5 witness: the second run, made on the first run's output, has written; the
\* original input carried prior values, one row ended with the defaults and
\* another with a pair
C5_Witness ==
    /\ Written
    /\ run = "again"
    /\ args.input = OUTPUT_PATH
    /\ HadPriorValues
    /\ \E i \in 1..RowCount, j \in 1..RowCount :
           /\ Fields(OutputFile, i) = DefaultFields
           /\ ~BlankUrl(i)
           /\ Enriched(j)

\* C8: every fetch attempt is followed by exactly one delay of max(0, delay)
\* before anything else happens to another row, whatever the fetch and the
\* extraction gave; a row that was not fetched takes no delay; so exactly one
\* delay lies between two consecutive fetch attempts.
C8_OneDelayPerAttempt ==
    /\ \A j \in Sleeps :
           /\ log[j].secs >= 0
           /\ log[j].secs >= args.delay
           /\ log[j].secs \in {0, args.delay}
           /\ Cardinality(At("fetch", log[j].row) \cap 1..j) = 1
    /\ \A r \in 0..(Len(items) - 1) :
           /\ Cardinality(At("sleep", r)) <= Cardinality(At("fetch", r))
           /\ (r + 1 < k) => Cardinality(At("sleep", r)) = Cardinality(At("fetch", r))
    /\ \A a \in Fetches, b \in Fetches :
           a < b => \E j \in Sleeps : a < j /\ j < b /\ log[j].row = log[a].row
    /\ \A a \in Fetches, b \in Fetches :
           (a < b /\ \A c \in Fetches : ~(a < c /\ c < b)) =>
               Cardinality({j \in Sleeps : a < j /\ j < b}) = 1

\* C8 witness: with a negative --delay, a fetch that timed out and a fetch whose
\* page had no match were each followed by a delay of 0
C8_Witness ==
    /\ args.delay < 0
    /\ \E a \in Fetches, b \in Fetches :
           /\ a < b
           /\ At("Timeout", log[a].row) # {}
           /\ \E j \in Sleeps : a < j /\ j < b /\ log[j].secs = 0
    /\ \E r \in 0..(Len(items) - 1) : At("miss", r) # {} /\ At("sleep", r) # {}

\* C9: the output is written once, after the last row: while the loop has not
\* passed the last row the output path holds what it held when the run began,
\* so a run interrupted in the loop leaves no output; a write comes with every
\* row handled.
C9_WriteOnlyAfterLoop ==
    /\ Cardinality(Writes) <= 1
    /\ (pc \in {"start", "check"} \/ k <= Len(items)) =>
           /\ Writes = {}
           /\ OutputFile = firstOut
    /\ Written =>
           /\ k = RowCount + 1
           /\ \A i \in 1..RowCount : At("skip", i - 1) # {} \/ At("sleep", i - 1) # {}
           /\ \A j \in 1..Len(log) : j <= CHOOSE w \in Writes : TRUE
    /\ (pc = "exited" /\ exit = 130) => (Writes = {} /\ OutputFile = firstOut)

\* C9 witness: the first run was interrupted after it had stored a pair for a
\* row, and there is no output file
C9_Witness ==
    /\ pc = "exited"
    /\ exit = 130
    /\ run = "first"
    /\ \E r \in 0..(Len(items) - 1) : At("store", r) # {}
    /\ ~OutputFile.exists

\* C10: rows are handled in their order, one at a time: the events of the log
\* never go back to an earlier row, at most one request is in flight, a row is
\* fetched at most once, its answer and its delay come before the next row's
\* fetch, and every row with a URL that the loop has passed was fetched once.
C10_InOrderOneAtATime ==
    /\ inflight \in {0, 1}
    /\ inflight = 1 <=> pc = "await"
    /\ \A a \in 1..Len(log), b \in 1..Len(log) :
           (a < b /\ log[b].e # "write") => log[a].row <= log[b].row
    /\ \A a \in Fetches, b \in Fetches :
           a < b =>
               /\ log[a].row < log[b].row
               /\ \E j \in (a + 1)..(b - 1) :
                      log[j].row = log[a].row /\ log[j].e \in FetchErrors \cup {"page"}
               /\ \E j \in (a + 1)..(b - 1) : log[j].row = log[a].row /\ log[j].e = "sleep"
    /\ ColumnConfigured =>
           \A i \in 1..RowCount :
               /\ Cardinality(At("fetch", i - 1)) <= 1
               /\ (i < k /\ pc # "start" /\ pc # "check" /\ ~BlankUrl(i)) =>
                      Cardinality(At("fetch", i - 1)) = 1

\* C10 witness: the first row's fetch failed, it was not retried, and the second
\* row's request is in flight
C10_Witness ==
    /\ pc = "await"
    /\ inflight = 1
    /\ Cardinality(At("fetch", 0)) = 1
    /\ At("ConnectionError", 0) # {}
    /\ At("fetch", 1) # {}

====
